---- MODULE Spec2Model ----
(***************************************************************************)
(* gdatasea: the SQLModel schema of src/gdatasea/models.py on the SQLite   *)
(* engine that src/gdatasea/database.py creates.                           *)
(*                                                                         *)
(* A table is the set of its rows; a row is a record of the columns the    *)
(* constraints and relationships of models.py read.  A nullable column     *)
(* holds NULL (the empty set) or Some(v) (the singleton {v}).  Columns     *)
(* that no constraint below reads (timestamps, attributes, paths, ids of   *)
(* projects, cells, wafers and dies) are left out of the rows.             *)
(*                                                                         *)
(* Every write is one committed session: the row is inserted, updated or   *)
(* deleted (with the ORM cascades of the relationships) when the table's   *)
(* constraints accept it, and otherwise the statement fails with           *)
(* IntegrityError and the session rolls back to the tables as they were.   *)
(* result holds the outcome of the last operation.                         *)
(***************************************************************************)
EXTENDS Integers, FiniteSets, Sequences, TLC

VARIABLES project, cell, device, device_data, wafer, die,
          analysis_function, analysis, foreign_keys, result

tables == <<project, cell, device, device_data, wafer, die,
            analysis_function, analysis>>
vars == <<project, cell, device, device_data, wafer, die,
          analysis_function, analysis, foreign_keys, result>>

(***************************************************************************)
(* Bounds of the model: the largest primary key a table hands out in each  *)
(* specification.                                                          *)
(***************************************************************************)
\* SpecDesign
MaxDevice == 2
\* Spec, SpecAnalysis, SpecAnalysisId
MaxAnalysis == 2
\* SpecAnalysisId
MaxDie == 1

(***************************************************************************)
(* SQL values.                                                             *)
(***************************************************************************)
NULL == {}
Some(v) == {v}
IsNull(v) == v = NULL
Val(v) == CHOOSE e \in v : TRUE

\* SQL's three truth values; a comparison with NULL is UNKNOWN.
SqlBool(b) == IF b THEN "TRUE" ELSE "FALSE"
SqlIsNull(v) == SqlBool(IsNull(v))
SqlIsNotNull(v) == SqlBool(~IsNull(v))
SqlNe(a, b) == IF IsNull(a) \/ IsNull(b) THEN "UNKNOWN" ELSE SqlBool(a # b)
SqlAnd(a, b) == IF a = "FALSE" \/ b = "FALSE" THEN "FALSE"
                ELSE IF a = "TRUE" /\ b = "TRUE" THEN "TRUE" ELSE "UNKNOWN"
SqlOr(a, b) == IF a = "TRUE" \/ b = "TRUE" THEN "TRUE"
               ELSE IF a = "FALSE" /\ b = "FALSE" THEN "FALSE" ELSE "UNKNOWN"
\* A CHECK constraint rejects a row only when its expression is FALSE.
CheckHolds(t) == t # "FALSE"
\* A UNIQUE constraint compares two rows' columns: equal only when every
\* column is non-null in both rows and the values agree (NULLs are distinct).
UniqueClash(cols1, cols2) ==
    /\ \A i \in DOMAIN cols1 : ~IsNull(cols1[i]) /\ ~IsNull(cols2[i])
    /\ cols1 = cols2

Pkeys(T) == {r.pkey : r \in T}
Max(S) == CHOOSE m \in S : \A n \in S : n <= m
\* pkey: Optional[int] = Field(default=None, primary_key=True): an INTEGER
\* PRIMARY KEY of SQLite, which gives a row inserted without a key the
\* largest key of the table plus one.
NextPkey(T) == IF T = {} THEN 1 ELSE Max(Pkeys(T)) + 1
NewPkey(T, pkey) == IF IsNull(pkey) THEN NextPkey(T) ELSE Val(pkey)
\* The bound of a specification on the keys of table T.
Room(T, pkey, max) == NewPkey(T, pkey) <= max

Ok(op, row) == [op |-> op, status |-> "ok", row |-> row]
IntegrityError(op, row) == [op |-> op, status |-> "IntegrityError", row |-> row]

(***************************************************************************)
(* Device.__table_args__                                                   *)
(***************************************************************************)
\* UniqueConstraint("x","y","angle","mirror","parent_cell_pkey","cell_pkey")
CoordCellColumns(d) ==
    <<d.x, d.y, d.angle, d.mirror, d.parent_cell_pkey, Some(d.cell_pkey)>>
\* The constraint declared with device_id among its columns.
unique_coord_cells_and_id_on_device(d, others) ==
    \A o \in others : ~(UniqueClash(CoordCellColumns(d), CoordCellColumns(o))
                        /\ o.device_id = d.device_id)
unique_coord_cells_on_device(d, others) ==
    \A o \in others : ~UniqueClash(CoordCellColumns(d), CoordCellColumns(o))

\* UniqueConstraint("cell_pkey", "device_id")
unique_device_ids_per_cell(d, others) ==
    \A o \in others : ~(o.cell_pkey = d.cell_pkey /\ o.device_id = d.device_id)

\* The check written against the Device's own key: parent_cell_pkey <> pkey.
device_pkey_references(d) ==
    CheckHolds(SqlNe(d.parent_cell_pkey, Some(d.pkey)))
\* CheckConstraint("parent_cell_pkey <> cell_pkey")
unique_device_cell_references(d) ==
    CheckHolds(SqlNe(d.parent_cell_pkey, Some(d.cell_pkey)))

\* The check with "mirror IS NOT NULL" left out of its second branch.
coordinate_reference_without_mirror(d) ==
    CheckHolds(SqlOr(
        SqlAnd(SqlIsNull(d.parent_cell_pkey), SqlAnd(SqlIsNull(d.x),
            SqlAnd(SqlIsNull(d.y), SqlAnd(SqlIsNull(d.angle), SqlIsNull(d.mirror))))),
        SqlAnd(SqlIsNotNull(d.parent_cell_pkey), SqlAnd(SqlIsNotNull(d.x),
            SqlAnd(SqlIsNotNull(d.y), SqlIsNotNull(d.angle))))))
\* CheckConstraint("(parent_cell_pkey IS NULL and x IS NULL and ...) OR
\*                  (parent_cell_pkey IS NOT NULL and x IS NOT NULL and ...)")
parent_cell_coordinate_reference_not_null(d) ==
    CheckHolds(SqlOr(
        SqlAnd(SqlIsNull(d.parent_cell_pkey), SqlAnd(SqlIsNull(d.x),
            SqlAnd(SqlIsNull(d.y), SqlAnd(SqlIsNull(d.angle), SqlIsNull(d.mirror))))),
        SqlAnd(SqlIsNotNull(d.parent_cell_pkey), SqlAnd(SqlIsNotNull(d.x),
            SqlAnd(SqlIsNotNull(d.y), SqlAnd(SqlIsNotNull(d.angle),
                SqlIsNotNull(d.mirror)))))))

\* The device table accepts row d next to the rows others.
DeviceAccepts(d, others) ==
    /\ d.pkey \notin Pkeys(others)
    /\ unique_coord_cells_on_device(d, others)
    /\ unique_device_ids_per_cell(d, others)
    /\ unique_device_cell_references(d)
    /\ parent_cell_coordinate_reference_not_null(d)

(***************************************************************************)
(* Analysis.__table_args__                                                 *)
(***************************************************************************)
CaseNotNull(v) == IF ~IsNull(v) THEN 1 ELSE 0
\* The check written with ">=" for "=": at most one target, none included.
analysis_pkeys_at_most_one(a) ==
    CheckHolds(SqlBool(1 >= CaseNotNull(a.device_data_pkey) + CaseNotNull(a.die_pkey)
                               + CaseNotNull(a.wafer_pkey)))
\* CheckConstraint("1 = (CASE WHEN device_data_pkey IS NOT NULL THEN 1 ELSE 0 END
\*     + CASE WHEN die_pkey IS NOT NULL ... + CASE WHEN wafer_pkey IS NOT NULL ...)")
analysis_pkeys_xor_constraint(a) ==
    CheckHolds(SqlBool(1 = CaseNotNull(a.device_data_pkey) + CaseNotNull(a.die_pkey)
                              + CaseNotNull(a.wafer_pkey)))

AnalysisAccepts(a, others) ==
    /\ a.pkey \notin Pkeys(others)
    /\ analysis_pkeys_xor_constraint(a)

\* class AnalysisFunctionTargetModel(StrEnum)
AnalysisFunctionTargetModel == {"device_data", "die", "wafer"}

(***************************************************************************)
(* Relationships with cascade "all, delete": the rows of the child table   *)
(* that session.delete() reaches from the parent rows with keys K.         *)
(***************************************************************************)
Project_cells(K) == {c \in cell : c.project_pkey \in K}
Project_wafers(K) == {w \in wafer : w.project_pkey \in K}
Cell_devices(K) == {d \in device : d.cell_pkey \in K}
Device_device_data(K) == {x \in device_data : x.device_pkey \in K}
Wafer_dies(K) == {d \in die : d.wafer_pkey \in K}
Wafer_analysis(K) == {a \in analysis : a.wafer_pkey \cap K # {}}
\* Die.device_data declared without the delete cascade.
Die_device_data_kept(K) == {}
Die_device_data(K) == {x \in device_data : x.die_pkey \cap K # {}}
Die_analysis(K) == {a \in analysis : a.die_pkey \cap K # {}}
DeviceData_analysis(K) == {a \in analysis : a.device_data_pkey \cap K # {}}
AnalysisFunction_analysis(K) == {a \in analysis : a.analysis_function_pkey \in K}

\* Every foreign-key column of the given tables names a row of its table.
ForeignKeysHold(p, c, dv, dd, w, di, af, an) ==
    /\ \A r \in c : r.project_pkey \in Pkeys(p)
    /\ \A r \in dv : r.cell_pkey \in Pkeys(c) /\ r.parent_cell_pkey \subseteq Pkeys(c)
    /\ \A r \in dd : r.device_pkey \in Pkeys(dv) /\ r.die_pkey \subseteq Pkeys(di)
    /\ \A r \in w : r.project_pkey \in Pkeys(p)
    /\ \A r \in di : r.wafer_pkey \in Pkeys(w)
    /\ \A r \in an : /\ r.device_data_pkey \subseteq Pkeys(dd)
                     /\ r.die_pkey \subseteq Pkeys(di)
                     /\ r.wafer_pkey \subseteq Pkeys(w)
                     /\ r.analysis_function_pkey \in Pkeys(af)

\* session.delete() of the rows with the given keys and commit: the unit of
\* work deletes what the cascades reach, children before parents.  With
\* foreign keys enforced a remaining reference to a deleted row fails the
\* DELETE and the session rolls back.
SessionDelete(op, k, P, C, Dv, DD, W, Di, AF, An) ==
    LET delC == C \cup Pkeys(Project_cells(P))
        delDv == Dv \cup Pkeys(Cell_devices(delC))
        delW == W \cup Pkeys(Project_wafers(P))
        delDi == Di \cup Pkeys(Wafer_dies(delW))
        delDD == DD \cup Pkeys(Device_device_data(delDv))
                    \cup Pkeys(Die_device_data(delDi))
        delAn == An \cup Pkeys(Wafer_analysis(delW)) \cup Pkeys(Die_analysis(delDi))
                    \cup Pkeys(DeviceData_analysis(delDD))
                    \cup Pkeys(AnalysisFunction_analysis(AF))
        p == {r \in project : r.pkey \notin P}
        c == {r \in cell : r.pkey \notin delC}
        dv == {r \in device : r.pkey \notin delDv}
        dd == {r \in device_data : r.pkey \notin delDD}
        w == {r \in wafer : r.pkey \notin delW}
        di == {r \in die : r.pkey \notin delDi}
        af == {r \in analysis_function : r.pkey \notin AF}
        an == {r \in analysis : r.pkey \notin delAn}
    IN  IF foreign_keys /\ ~ForeignKeysHold(p, c, dv, dd, w, di, af, an)
        THEN /\ result' = IntegrityError(op, [pkey |-> k])
             /\ UNCHANGED <<tables, foreign_keys>>
        ELSE /\ project' = p /\ cell' = c /\ device' = dv /\ device_data' = dd
             /\ wafer' = w /\ die' = di /\ analysis_function' = af /\ analysis' = an
             /\ result' = Ok(op, [pkey |-> k])
             /\ UNCHANGED foreign_keys

DeleteProject(k) ==
    /\ k \in Pkeys(project)
    /\ SessionDelete("delete_project", k, {k}, {}, {}, {}, {}, {}, {}, {})
DeleteCell(k) ==
    /\ k \in Pkeys(cell)
    /\ SessionDelete("delete_cell", k, {}, {k}, {}, {}, {}, {}, {}, {})
DeleteDevice(k) ==
    /\ k \in Pkeys(device)
    /\ SessionDelete("delete_device", k, {}, {}, {k}, {}, {}, {}, {}, {})
DeleteDeviceData(k) ==
    /\ k \in Pkeys(device_data)
    /\ SessionDelete("delete_device_data", k, {}, {}, {}, {k}, {}, {}, {}, {})
DeleteWafer(k) ==
    /\ k \in Pkeys(wafer)
    /\ SessionDelete("delete_wafer", k, {}, {}, {}, {}, {k}, {}, {}, {})
DeleteDie(k) ==
    /\ k \in Pkeys(die)
    /\ SessionDelete("delete_die", k, {}, {}, {}, {}, {}, {k}, {}, {})
DeleteAnalysisFunction(k) ==
    /\ k \in Pkeys(analysis_function)
    /\ SessionDelete("delete_analysis_function", k, {}, {}, {}, {}, {}, {}, {k}, {})
DeleteAnalysis(k) ==
    /\ k \in Pkeys(analysis)
    /\ SessionDelete("delete_analysis", k, {}, {}, {}, {}, {}, {}, {}, {k})

(***************************************************************************)
(* session.add(row) and commit.  A caller passes references to stored      *)
(* rows; pkey is NULL (the store picks the key) or an explicit key.        *)
(***************************************************************************)
Opt(S) == {NULL} \cup {Some(v) : v \in S}

InsertDevice(pkey, cell_pkey, device_id, x, y, angle, mirror, parent_cell_pkey) ==
    LET new == [pkey |-> NewPkey(device, pkey), cell_pkey |-> cell_pkey,
                device_id |-> device_id, x |-> x, y |-> y, angle |-> angle,
                mirror |-> mirror, parent_cell_pkey |-> parent_cell_pkey] IN
    /\ cell_pkey \in Pkeys(cell)
    /\ parent_cell_pkey \subseteq Pkeys(cell)
    /\ IF DeviceAccepts(new, device)
       THEN device' = device \cup {new} /\ result' = Ok("insert_device", new)
       ELSE UNCHANGED device /\ result' = IntegrityError("insert_device", new)
    /\ UNCHANGED <<project, cell, device_data, wafer, die, analysis_function,
                   analysis, foreign_keys>>

\* Assign the placement columns of the stored Device k and commit.
UpdateDevice(k, x, y, angle, mirror, parent_cell_pkey) ==
    /\ k \in Pkeys(device)
    /\ parent_cell_pkey \subseteq Pkeys(cell)
    /\ LET old == CHOOSE d \in device : d.pkey = k
           new == [old EXCEPT !.x = x, !.y = y, !.angle = angle, !.mirror = mirror,
                              !.parent_cell_pkey = parent_cell_pkey]
       IN  IF DeviceAccepts(new, device \ {old})
           THEN /\ device' = (device \ {old}) \cup {new}
                /\ result' = Ok("update_device", new)
           ELSE /\ UNCHANGED device
                /\ result' = IntegrityError("update_device", new)
    /\ UNCHANGED <<project, cell, device_data, wafer, die, analysis_function,
                   analysis, foreign_keys>>

InsertDie(pkey, wafer_pkey) ==
    LET new == [pkey |-> NewPkey(die, pkey), wafer_pkey |-> wafer_pkey] IN
    /\ wafer_pkey \in Pkeys(wafer)
    /\ IF new.pkey \notin Pkeys(die)
       THEN die' = die \cup {new} /\ result' = Ok("insert_die", new)
       ELSE UNCHANGED die /\ result' = IntegrityError("insert_die", new)
    /\ UNCHANGED <<project, cell, device, device_data, wafer, analysis_function,
                   analysis, foreign_keys>>

InsertAnalysis(pkey, is_latest, input_hash, parameters, device_data_pkey, die_pkey, wafer_pkey, analysis_function_pkey) ==
    LET new == [pkey |-> NewPkey(analysis, pkey), is_latest |-> is_latest,
                input_hash |-> input_hash, parameters |-> parameters,
                device_data_pkey |-> device_data_pkey, die_pkey |-> die_pkey,
                wafer_pkey |-> wafer_pkey,
                analysis_function_pkey |-> analysis_function_pkey] IN
    /\ device_data_pkey \subseteq Pkeys(device_data)
    /\ die_pkey \subseteq Pkeys(die)
    /\ wafer_pkey \subseteq Pkeys(wafer)
    /\ analysis_function_pkey \in Pkeys(analysis_function)
    /\ IF AnalysisAccepts(new, analysis)
       THEN analysis' = analysis \cup {new} /\ result' = Ok("insert_analysis", new)
       ELSE UNCHANGED analysis /\ result' = IntegrityError("insert_analysis", new)
    /\ UNCHANGED <<project, cell, device, device_data, wafer, die,
                   analysis_function, foreign_keys>>

\* Assign is_latest of the stored Analysis k and commit.
UpdateIsLatest(k, is_latest) ==
    /\ k \in Pkeys(analysis)
    /\ LET old == CHOOSE a \in analysis : a.pkey = k
           new == [old EXCEPT !.is_latest = is_latest]
       IN  IF AnalysisAccepts(new, analysis \ {old})
           THEN /\ analysis' = (analysis \ {old}) \cup {new}
                /\ result' = Ok("update_analysis", new)
           ELSE /\ UNCHANGED analysis
                /\ result' = IntegrityError("update_analysis", new)
    /\ UNCHANGED <<project, cell, device, device_data, wafer, die,
                   analysis_function, foreign_keys>>

\* Assign the target columns of the stored Analysis k and commit.
UpdateTarget(k, device_data_pkey, die_pkey, wafer_pkey) ==
    /\ k \in Pkeys(analysis)
    /\ device_data_pkey \subseteq Pkeys(device_data)
    /\ die_pkey \subseteq Pkeys(die)
    /\ wafer_pkey \subseteq Pkeys(wafer)
    /\ LET old == CHOOSE a \in analysis : a.pkey = k
           new == [old EXCEPT !.device_data_pkey = device_data_pkey,
                              !.die_pkey = die_pkey, !.wafer_pkey = wafer_pkey]
       IN  IF AnalysisAccepts(new, analysis \ {old})
           THEN /\ analysis' = (analysis \ {old}) \cup {new}
                /\ result' = Ok("update_analysis", new)
           ELSE /\ UNCHANGED analysis
                /\ result' = IntegrityError("update_analysis", new)
    /\ UNCHANGED <<project, cell, device, device_data, wafer, die,
                   analysis_function, foreign_keys>>

(***************************************************************************)
(* Analysis.analysis_id                                                    *)
(***************************************************************************)
Digit == <<"0", "1", "2", "3", "4", "5", "6", "7", "8", "9">>
RECURSIVE Str(_)
\* str(v) of an int
Str(n) == IF n < 0 THEN "-" \o Str(-n)
          ELSE IF n < 10 THEN Digit[n + 1]
          ELSE Str(n \div 10) \o Digit[(n % 10) + 1]

\* the truth value of an Optional[int] in `if v`
Truthy(v) == ~IsNull(v) /\ Val(v) # 0

mapping(a) == << <<"Device Data", a.device_data_pkey>>, <<"Die", a.die_pkey>>,
                 <<"Wafer", a.wafer_pkey>> >>
\* [str(k) + ' #' + str(v) for k, v in mapping.items() if v]
Labels(a) ==
    LET kept == SelectSeq(mapping(a), LAMBDA kv : Truthy(kv[2]))
    IN  [i \in DOMAIN kept |-> kept[i][1] \o " #" \o Str(Val(kept[i][2]))]

\* The property read on the stored Analysis k: [...][0] raises IndexError on
\* an empty list.
analysis_id(k) ==
    /\ k \in Pkeys(analysis)
    /\ LET a == CHOOSE r \in analysis : r.pkey = k
           f == CHOOSE r \in analysis_function : r.pkey = a.analysis_function_pkey
       IN  result' = IF Labels(a) = <<>>
                     THEN [op |-> "analysis_id", status |-> "IndexError",
                           row |-> [pkey |-> k]]
                     ELSE Ok("analysis_id",
                             [pkey |-> k,
                              value |-> f.analysis_function_id \o " on " \o Labels(a)[1]])
    /\ UNCHANGED <<tables, foreign_keys>>

(***************************************************************************)
(* Specifications.                                                         *)
(***************************************************************************)
Placed == [x |-> Some(10), y |-> Some(20), angle |-> Some(90), mirror |-> Some(FALSE)]
NotPlaced == [x |-> NULL, y |-> NULL, angle |-> NULL, mirror |-> NULL]
Unplaced(pkey, cell_pkey, device_id) ==
    [pkey |-> pkey, cell_pkey |-> cell_pkey, device_id |-> device_id, x |-> NULL,
     y |-> NULL, angle |-> NULL, mirror |-> NULL, parent_cell_pkey |-> NULL]

\* The engine is created without a foreign_keys pragma, so whether SQLite
\* enforces foreign keys is the default its build was compiled with.
ForeignKeysDefault == BOOLEAN

\* The whole entity graph, populated: two projects, each with a cell, a
\* device, a wafer and a die.  Device 2 (of project 2) is placed in cell 1
\* (of project 1); device data 1 is measured on device 1 (project 1) and die
\* 2 (project 2), device data 2 on device 2 alone.  The function "iv_curve"
\* is registered; no analysis is stored yet.
Init ==
    /\ project = {[pkey |-> 1], [pkey |-> 2]}
    /\ cell = {[pkey |-> 1, project_pkey |-> 1], [pkey |-> 2, project_pkey |-> 2]}
    /\ device = {Unplaced(1, 1, "inst0"),
                 [pkey |-> 2, cell_pkey |-> 2, device_id |-> "inst0", x |-> Placed.x,
                  y |-> Placed.y, angle |-> Placed.angle, mirror |-> Placed.mirror,
                  parent_cell_pkey |-> Some(1)]}
    /\ wafer = {[pkey |-> 1, project_pkey |-> 1], [pkey |-> 2, project_pkey |-> 2]}
    /\ die = {[pkey |-> 1, wafer_pkey |-> 1], [pkey |-> 2, wafer_pkey |-> 2]}
    /\ device_data = {[pkey |-> 1, device_pkey |-> 1, die_pkey |-> Some(2)],
                      [pkey |-> 2, device_pkey |-> 2, die_pkey |-> NULL]}
    /\ analysis_function =
         {[pkey |-> 1, analysis_function_id |-> "iv_curve", version |-> 1,
           target_model |-> "device_data"]}
    /\ analysis = {}
    /\ foreign_keys \in ForeignKeysDefault
    /\ result = Ok("insert_analysis_function",
                   [pkey |-> 1, analysis_function_id |-> "iv_curve", version |-> 1,
                    target_model |-> "device_data"])

\* Analyses are recorded on any one target, and rows of every table are
\* deleted.
Next ==
    \/ \E f \in Pkeys(analysis_function), dd \in Opt(Pkeys(device_data)),
          di \in Opt(Pkeys(die)), w \in Opt(Pkeys(wafer)) :
          /\ Room(analysis, NULL, MaxAnalysis)
          /\ InsertAnalysis(NULL, TRUE, "h25", "temp=25", dd, di, w, f)
    \/ \E k \in Pkeys(project) : DeleteProject(k)
    \/ \E k \in Pkeys(cell) : DeleteCell(k)
    \/ \E k \in Pkeys(device) : DeleteDevice(k)
    \/ \E k \in Pkeys(device_data) : DeleteDeviceData(k)
    \/ \E k \in Pkeys(wafer) : DeleteWafer(k)
    \/ \E k \in Pkeys(die) : DeleteDie(k)
    \/ \E k \in Pkeys(analysis_function) : DeleteAnalysisFunction(k)
    \/ \E k \in Pkeys(analysis) : DeleteAnalysis(k)

Spec == Init /\ [][Next]_vars

\* The values callers pass: device names, and placements that set none, all
\* or only some of the four coordinate columns.
DeviceIds == {"inst0", "inst1"}
Placements ==
    {NotPlaced, Placed,
     [x |-> Some(10), y |-> NULL, angle |-> NULL, mirror |-> NULL],
     [x |-> Some(10), y |-> Some(20), angle |-> Some(90), mirror |-> NULL]}

\* The design hierarchy: project "P1" with its cells "top" and "leaf" stored,
\* their devices still to come.
InitDesign ==
    /\ project = {[pkey |-> 1]}
    /\ cell = {[pkey |-> 1, project_pkey |-> 1], [pkey |-> 2, project_pkey |-> 1]}
    /\ device = {} /\ device_data = {}
    /\ wafer = {} /\ die = {} /\ analysis_function = {} /\ analysis = {}
    /\ foreign_keys \in ForeignKeysDefault
    /\ result = Ok("insert_cell", [pkey |-> 2, project_pkey |-> 1])

NextDesign ==
    \/ \E c \in Pkeys(cell), id \in DeviceIds, at \in Placements,
          parent \in Opt(Pkeys(cell)) :
          /\ Room(device, NULL, MaxDevice)
          /\ InsertDevice(NULL, c, id, at.x, at.y, at.angle, at.mirror, parent)
    \/ \E k \in Pkeys(device), at \in Placements, parent \in Opt(Pkeys(cell)) :
          UpdateDevice(k, at.x, at.y, at.angle, at.mirror, parent)
    \/ \E k \in Pkeys(cell) : DeleteCell(k)
    \/ \E k \in Pkeys(device) : DeleteDevice(k)

SpecDesign == InitDesign /\ [][NextDesign]_vars

(***************************************************************************)
(* Claims about the cascades, under Spec.                                  *)
(***************************************************************************)
\* The keys of the rows that project p owns, directly or through the rows
\* it owns: its cells and wafers, their devices and dies, the device data
\* of those, and the analyses of its wafers, dies and device data.
OwnedCells(p) == {c.pkey : c \in {r \in cell : r.project_pkey = p}}
OwnedWafers(p) == {w.pkey : w \in {r \in wafer : r.project_pkey = p}}
OwnedDevices(p) == {d.pkey : d \in {r \in device : r.cell_pkey \in OwnedCells(p)}}
OwnedDies(p) == {d.pkey : d \in {r \in die : r.wafer_pkey \in OwnedWafers(p)}}
OwnedDeviceData(p) ==
    {x.pkey : x \in {r \in device_data :
        \/ r.device_pkey \in OwnedDevices(p)
        \/ \E k \in OwnedDies(p) : r.die_pkey = Some(k)}}
OwnedAnalysis(p) ==
    {a.pkey : a \in {r \in analysis :
        \/ \E k \in OwnedDeviceData(p) : r.device_data_pkey = Some(k)
        \/ \E k \in OwnedDies(p) : r.die_pkey = Some(k)
        \/ \E k \in OwnedWafers(p) : r.wafer_pkey = Some(k)}}

\* Every row's owners are stored rows.
NoOrphans ==
    /\ \A r \in cell : \E o \in project : o.pkey = r.project_pkey
    /\ \A r \in wafer : \E o \in project : o.pkey = r.project_pkey
    /\ \A r \in device : \E o \in cell : o.pkey = r.cell_pkey
    /\ \A r \in die : \E o \in wafer : o.pkey = r.wafer_pkey
    /\ \A r \in device_data :
          /\ \E o \in device : o.pkey = r.device_pkey
          /\ r.die_pkey # NULL => \E o \in die : Some(o.pkey) = r.die_pkey
    /\ \A r \in analysis :
          /\ \E o \in analysis_function : o.pkey = r.analysis_function_pkey
          /\ r.device_data_pkey # NULL =>
                \E o \in device_data : Some(o.pkey) = r.device_data_pkey
          /\ r.die_pkey # NULL => \E o \in die : Some(o.pkey) = r.die_pkey
          /\ r.wafer_pkey # NULL => \E o \in wafer : Some(o.pkey) = r.wafer_pkey

\* C6: after a Project is deleted, no Cell, Device, DeviceData, Wafer, Die
\* or Analysis that was reachable from it through ownership remains, and
\* every remaining row's owners are still stored.
C6_ProjectCascade ==
    [][/\ \A p \in Pkeys(project) \ Pkeys(project') :
            /\ OwnedCells(p) \cap Pkeys(cell') = {}
            /\ OwnedDevices(p) \cap Pkeys(device') = {}
            /\ OwnedDeviceData(p) \cap Pkeys(device_data') = {}
            /\ OwnedWafers(p) \cap Pkeys(wafer') = {}
            /\ OwnedDies(p) \cap Pkeys(die') = {}
            /\ OwnedAnalysis(p) \cap Pkeys(analysis') = {}
       /\ NoOrphans'
      ]_vars

\* C6 witness: project 2 has just been deleted; project 1 keeps its cell,
\* device, wafer, die and an analysis, and the device data of device 1 that
\* was measured on the die of project 2 is gone.
C6_Witness ==
    /\ result.op = "delete_project" /\ result.status = "ok" /\ result.row.pkey = 2
    /\ Pkeys(project) = {1} /\ Pkeys(cell) = {1} /\ Pkeys(device) = {1}
    /\ Pkeys(wafer) = {1} /\ Pkeys(die) = {1}
    /\ device_data = {} /\ analysis # {}

(***************************************************************************)
(* Claims about the Device table, under SpecDesign.                        *)
(***************************************************************************)
DeviceWrite(r) == r.op \in {"insert_device", "update_device"}
HasParentCell(d) == ~IsNull(d.parent_cell_pkey)
AllCoordinatesSet(d) ==
    ~IsNull(d.x) /\ ~IsNull(d.y) /\ ~IsNull(d.angle) /\ ~IsNull(d.mirror)
NoCoordinateSet(d) ==
    IsNull(d.x) /\ IsNull(d.y) /\ IsNull(d.angle) /\ IsNull(d.mirror)
PartialPlacement(d) ==
    ~(HasParentCell(d) /\ AllCoordinatesSet(d)) /\ ~(~HasParentCell(d) /\ NoCoordinateSet(d))
\* The stored rows a written row is compared with: all but the row itself.
OtherDevices(row) == {o \in device : o.pkey # row.pkey}

\* C3: every stored Device has a parent cell if and only if x, y, angle and
\* mirror are all set, and no stored Device has a partial placement (some
\* but not all of the five fields set).
C3_PlacementAllOrNone ==
    \A d \in device :
        /\ HasParentCell(d) <=> AllCoordinatesSet(d)
        /\ ~PartialPlacement(d)

\* C3 witness: a placed Device is stored and a write of a partially placed
\* Device (another cell as parent, x, y and angle, but no mirror), which
\* breaks no other constraint, has just been rejected.
C3_Witness ==
    /\ \E d \in device : HasParentCell(d) /\ AllCoordinatesSet(d)
    /\ DeviceWrite(result) /\ result.status = "IntegrityError"
    /\ HasParentCell(result.row) /\ IsNull(result.row.mirror)
    /\ ~IsNull(result.row.x) /\ ~IsNull(result.row.y) /\ ~IsNull(result.row.angle)
    /\ result.row.parent_cell_pkey # Some(result.row.cell_pkey)
    /\ unique_device_ids_per_cell(result.row, OtherDevices(result.row))

\* C4: a stored Device's parent cell is never its own cell; a create or
\* update that makes the parent cell the Device's own cell is rejected and
\* changes nothing; a Device with no parent cell (and no coordinates, and a
\* name unused in its cell) is accepted.
C4_NoSelfPlacement ==
    [][/\ \A d \in device' : HasParentCell(d) => Val(d.parent_cell_pkey) # d.cell_pkey
       /\ (DeviceWrite(result') /\ result'.row.parent_cell_pkey = Some(result'.row.cell_pkey))
            => (result'.status = "IntegrityError" /\ device' = device)
       /\ (/\ DeviceWrite(result')
           /\ ~HasParentCell(result'.row) /\ NoCoordinateSet(result'.row)
           /\ unique_device_ids_per_cell(result'.row, OtherDevices(result'.row)))
            => (result'.status = "ok" /\ result'.row \in device')
      ]_vars

\* C4 witness: a Device without a parent cell is stored and a write placing
\* a Device into its own cell, with all coordinates and breaking no other
\* constraint, has just been rejected.
C4_Witness ==
    /\ \E d \in device : ~HasParentCell(d)
    /\ DeviceWrite(result) /\ result.status = "IntegrityError"
    /\ result.row.parent_cell_pkey = Some(result.row.cell_pkey)
    /\ AllCoordinatesSet(result.row)
    /\ unique_device_ids_per_cell(result.row, OtherDevices(result.row))
    /\ unique_coord_cells_on_device(result.row, OtherDevices(result.row))

SameTuple(d, o) == CoordCellColumns(d) = CoordCellColumns(o)

\* C5 as stated: no two stored Devices share the tuple (x, y, angle, mirror,
\* parent_cell, cell), and creating a Device whose tuple equals a stored
\* Device's is rejected and leaves the Devices unchanged.
C5_Original ==
    [][/\ \A d, o \in device' : d.pkey # o.pkey => ~SameTuple(d, o)
       /\ (result'.op = "insert_device" /\ \E o \in device : SameTuple(result'.row, o))
            => (result'.status = "IntegrityError" /\ device' = device)
      ]_vars

\* C5 amended: the same for Devices that have a parent cell: no two stored
\* Devices with a parent cell share the tuple, and creating a Device with a
\* parent cell whose tuple equals a stored Device's is rejected and leaves
\* the Devices unchanged.
C5_PlacedTupleUnique ==
    [][/\ \A d, o \in device' :
            (d.pkey # o.pkey /\ HasParentCell(d)) => ~SameTuple(d, o)
       /\ (/\ result'.op = "insert_device" /\ HasParentCell(result'.row)
           /\ \E o \in device : SameTuple(result'.row, o))
            => (result'.status = "IntegrityError" /\ device' = device)
      ]_vars

\* C5 witness: the create of a second placement with a stored Device's
\* tuple, under a name no stored Device has, has just been rejected.
C5_Witness ==
    /\ result.op = "insert_device" /\ result.status = "IntegrityError"
    /\ HasParentCell(result.row)
    /\ \E o \in device : SameTuple(result.row, o)
    /\ \A o \in device : o.device_id # result.row.device_id

\* C7: after any sequence of creates and deletes, the parent cell of every
\* Device that has one is a stored Cell.
C7_ParentCellExists ==
    \A d \in device : d.parent_cell_pkey \subseteq Pkeys(cell)

(***************************************************************************)
(* The analysis tables over a populated entity graph.                      *)
(***************************************************************************)
\* One project with a cell, a device and its device data, a wafer and a die;
\* the function "iv_curve", version 1, over device data is registered.
InitAnalysis ==
    /\ project = {[pkey |-> 1]}
    /\ cell = {[pkey |-> 1, project_pkey |-> 1]}
    /\ device = {Unplaced(1, 1, "inst0")}
    /\ wafer = {[pkey |-> 1, project_pkey |-> 1]}
    /\ die = {[pkey |-> 1, wafer_pkey |-> 1]}
    /\ device_data = {[pkey |-> 1, device_pkey |-> 1, die_pkey |-> NULL]}
    /\ analysis_function =
         {[pkey |-> 1, analysis_function_id |-> "iv_curve", version |-> 1,
           target_model |-> "device_data"]}
    /\ analysis = {}
    /\ foreign_keys \in ForeignKeysDefault
    /\ result = Ok("insert_analysis_function",
                   [pkey |-> 1, analysis_function_id |-> "iv_curve", version |-> 1,
                    target_model |-> "device_data"])

\* The parameters of a run with the input hash its caller computes for them
\* (the state of the targets does not change here).
Runs == {[parameters |-> "temp=25", input_hash |-> "h25"],
         [parameters |-> "temp=30", input_hash |-> "h30"]}

NextAnalysis ==
    \/ \E is_latest \in BOOLEAN, run \in Runs, dd \in Opt(Pkeys(device_data)),
          di \in Opt(Pkeys(die)), w \in Opt(Pkeys(wafer)),
          f \in Pkeys(analysis_function) :
          /\ Room(analysis, NULL, MaxAnalysis)
          /\ InsertAnalysis(NULL, is_latest, run.input_hash, run.parameters,
                            dd, di, w, f)
    \/ \E k \in Pkeys(analysis), is_latest \in BOOLEAN : UpdateIsLatest(k, is_latest)
    \/ \E k \in Pkeys(analysis), dd \in Opt(Pkeys(device_data)),
          di \in Opt(Pkeys(die)), w \in Opt(Pkeys(wafer)) :
          UpdateTarget(k, dd, di, w)
    \/ \E k \in Pkeys(analysis) : DeleteAnalysis(k)

SpecAnalysis == InitAnalysis /\ [][NextAnalysis]_vars

(***************************************************************************)
(* Claims about the Analysis table, under SpecAnalysis.                    *)
(***************************************************************************)
AnalysisWrite(r) == r.op \in {"insert_analysis", "update_analysis"}
\* The target references of an Analysis that are set, by kind.
TargetKinds(a) ==
    {kind \in AnalysisFunctionTargetModel :
        \/ kind = "device_data" /\ a.device_data_pkey # NULL
        \/ kind = "die" /\ a.die_pkey # NULL
        \/ kind = "wafer" /\ a.wafer_pkey # NULL}
SameTarget(a, b) ==
    /\ a.device_data_pkey = b.device_data_pkey
    /\ a.die_pkey = b.die_pkey
    /\ a.wafer_pkey = b.wafer_pkey
SamePair(a, b) ==
    a.analysis_function_pkey = b.analysis_function_pkey /\ SameTarget(a, b)
FunctionOf(a) ==
    CHOOSE f \in analysis_function : f.pkey = a.analysis_function_pkey

\* C1: for every pair (analysis function, target entity) at most one
\* Analysis row of that function and target has is_latest = true.
C1_AtMostOneLatest ==
    \A a, b \in analysis :
        (a.is_latest /\ b.is_latest /\ SamePair(a, b)) => a.pkey = b.pkey

\* C2: every stored Analysis has exactly one of device_data_pkey, die_pkey,
\* wafer_pkey set, and an insert or update that would leave zero, two or
\* three of them set is rejected and leaves the store unchanged.
C2_ExactlyOneTarget ==
    [][/\ \A a \in analysis' : Cardinality(TargetKinds(a)) = 1
       /\ (AnalysisWrite(result') /\ Cardinality(TargetKinds(result'.row)) # 1)
            => (result'.status = "IntegrityError" /\ tables' = tables)
      ]_vars

\* C2 witness: an Analysis is stored and the create of an Analysis with
\* both die_pkey and wafer_pkey set has just been rejected.
C2_Witness ==
    /\ analysis # {}
    /\ result.op = "insert_analysis" /\ result.status = "IntegrityError"
    /\ TargetKinds(result.row) = {"die", "wafer"}

\* C8: every stored Analysis targets the entity kind its function declares
\* as target_model, and a write of an Analysis whose single target is of
\* another kind is rejected and changes nothing.
C8_TargetMatchesFunction ==
    [][/\ \A a \in analysis' : TargetKinds(a) = {FunctionOf(a).target_model}
       /\ (/\ AnalysisWrite(result')
           /\ Cardinality(TargetKinds(result'.row)) = 1
           /\ TargetKinds(result'.row) # {FunctionOf(result'.row).target_model})
            => (result'.status = "IntegrityError" /\ tables' = tables)
      ]_vars

\* C9: recording a result (a new latest Analysis) for a function, target and
\* parameters whose input hash equals that of the pair's latest Analysis
\* creates no row and returns that stored Analysis.
C9_Idempotent ==
    [][(/\ result'.op = "insert_analysis" /\ result'.row.is_latest
        /\ \E a \in analysis : /\ a.is_latest /\ SamePair(a, result'.row)
                               /\ a.parameters = result'.row.parameters
                               /\ a.input_hash = result'.row.input_hash)
          => (analysis' = analysis /\ result'.row \in analysis)
      ]_vars

(***************************************************************************)
(* Reading analysis_id, with dies stored under keys the store picks and    *)
(* under the explicit key 0.                                               *)
(***************************************************************************)
InitAnalysisId ==
    /\ project = {[pkey |-> 1]}
    /\ cell = {[pkey |-> 1, project_pkey |-> 1]}
    /\ device = {Unplaced(1, 1, "inst0")}
    /\ wafer = {[pkey |-> 1, project_pkey |-> 1]}
    /\ die = {}
    /\ device_data = {[pkey |-> 1, device_pkey |-> 1, die_pkey |-> NULL]}
    /\ analysis_function =
         {[pkey |-> 1, analysis_function_id |-> "iv_curve", version |-> 1,
           target_model |-> "device_data"]}
    /\ analysis = {}
    /\ foreign_keys \in ForeignKeysDefault
    /\ result = Ok("insert_analysis_function",
                   [pkey |-> 1, analysis_function_id |-> "iv_curve", version |-> 1,
                    target_model |-> "device_data"])

NextAnalysisId ==
    \/ \E pkey \in Opt({0}), w \in Pkeys(wafer) :
          Room(die, pkey, MaxDie) /\ InsertDie(pkey, w)
    \/ \E dd \in Opt(Pkeys(device_data)), di \in Opt(Pkeys(die)),
          w \in Opt(Pkeys(wafer)), f \in Pkeys(analysis_function) :
          /\ Room(analysis, NULL, MaxAnalysis)
          /\ InsertAnalysis(NULL, TRUE, "h25", "temp=25", dd, di, w, f)
    \/ \E k \in Pkeys(analysis) : analysis_id(k)
    \/ \E k \in Pkeys(die) : DeleteDie(k)

SpecAnalysisId == InitAnalysisId /\ [][NextAnalysisId]_vars

\* The label of the one target reference that is set.
TargetLabel(a) ==
    IF a.device_data_pkey # NULL THEN "Device Data #" \o Str(Val(a.device_data_pkey))
    ELSE IF a.die_pkey # NULL THEN "Die #" \o Str(Val(a.die_pkey))
    ELSE "Wafer #" \o Str(Val(a.wafer_pkey))

\* C10: for every Analysis with exactly one target reference set, whatever
\* the target's primary key, analysis_id returns (never raises) the
\* function's analysis_function_id, " on " and the label of that target.
C10_AnalysisId ==
    result.op = "analysis_id" =>
        \A a \in analysis :
            (a.pkey = result.row.pkey /\ Cardinality(TargetKinds(a)) = 1) =>
                /\ result.status = "ok"
                /\ result.row.value =
                       FunctionOf(a).analysis_function_id \o " on " \o TargetLabel(a)

====
